---- MODULE Spec2Model ----
(***************************************************************************)
(* Model of requirementslib/models/setup_info.py: the SetupInfo aggregate  *)
(* and the get_info fallback chain that merges partial metadata records    *)
(* from setup.cfg, pyproject.toml, a PEP 517 build, installed metadata and *)
(* the legacy setup.py script.                                             *)
(***************************************************************************)
EXTENDS Integers, Sequences, FiniteSets, TLC

VARIABLES
    si,      \* the SetupInfo instance (its attr.ib fields)
    fs,      \* which declaration files exist in the package directory
    proc,    \* process-wide state: cwd, sys.argv, distutils log hook, module globals
    pc,      \* position of the caller in get_info / reload
    last,    \* what the most recent step did: its stages, the identity its source carried
    out,     \* the result of the last completed get_info: returned mapping or exception
    reloads  \* number of reload() calls made so far

vars == <<si, fs, proc, pc, last, out, reloads>>

-----------------------------------------------------------------------------
(* Bounds of the model.                                                    *)

\* reload() may be called this many times on one SetupInfo
MaxReloads == 1

-----------------------------------------------------------------------------
(* Python values.                                                          *)

\* Python's None for an optional string
None == "None"

\* `not x` for an optional string
Falsy(x) == x = None \/ x = ""

\* `tuple(v)` / `set(v)` of a sequence: the set of its items
Items(seq) == {seq[i] : i \in DOMAIN seq}

-----------------------------------------------------------------------------
(* Parsed requirement objects and Requirement Records.                     *)

\* pkg_resources-style requirement objects carry key, name and project_name;
\* packaging-style ones carry only name.
fooAny == [key |-> "foo", name |-> "Foo", project_name |-> "Foo", spec |-> ""]
foo1 == [key |-> "foo", name |-> "Foo", project_name |-> "Foo", spec |-> ">=1.0"]
barAny == [key |-> None, name |-> "bar", project_name |-> None, spec |-> ""]

ReqObjs == {fooAny, foo1, barAny}

\* BaseRequirement.from_req
from_req(req) ==
    LET key == req.key
        name0 == req.name
        name1 == IF key # None THEN key ELSE name0
        name2 == IF name1 = None THEN req.project_name ELSE name1
    IN  [name |-> name2, requirement |-> req]

\* str.strip() on the requirement lines of the model
strip(line) ==
    CASE line = "foo " -> "foo"
      [] line = " bar" -> "bar"
      [] OTHER -> line

\* A parsed environment marker is the sequence Marker._markers: a comparison
\* is a tuple (variable, operator, value), "and" / "or" are strings, and a
\* parenthesised group is a nested list.  <<>> is no marker.
MarkerTuple(variable, value) ==
    [kind |-> "tuple", variable |-> variable, value |-> value, items |-> <<>>]
MarkerStr(word) ==
    [kind |-> "str", variable |-> word, value |-> "", items |-> <<>>]
MarkerList(items) ==
    [kind |-> "list", variable |-> "", value |-> "", items |-> items]

\* packaging-style requirement objects of the Requires-Dist lines of a wheel
Requirement(name, marker) ==
    [key |-> None, name |-> name, project_name |-> None, spec |-> "",
     marker |-> marker]

\* req.marker; the requirement objects without the field have no marker
marker_of(req) == IF "marker" \in DOMAIN req THEN req.marker ELSE <<>>

\* utils.init_requirement on the (stripped) requirement lines of the model
init_requirement(line) ==
    CASE line = "foo" -> fooAny
      [] line = "foo>=1.0" -> foo1
      [] line = "bar" -> barAny
      [] line = "bar>=1.0" -> [barAny EXCEPT !.spec = ">=1.0"]
      [] line = "pytest" -> [barAny EXCEPT !.name = "pytest"]
      [] line = "bar; extra == 'docs'" ->
            Requirement("bar", <<MarkerTuple("extra", "docs")>>)
      [] line = "baz; python_version < '3' and extra == 'docs'" ->
            Requirement("baz", <<MarkerTuple("python_version", "3"),
                                 MarkerStr("and"),
                                 MarkerTuple("extra", "docs")>>)
      [] line = "qux; (python_version < '3') and (extra == 'docs')" ->
            Requirement("qux",
                <<MarkerList(<<MarkerTuple("python_version", "3")>>),
                  MarkerStr("and"),
                  MarkerList(<<MarkerTuple("extra", "docs")>>)>>)
      [] line = "quux; python_version < '3'" ->
            Requirement("quux", <<MarkerTuple("python_version", "3")>>)

\* BaseRequirement.from_string
from_string(line) == from_req(init_requirement(strip(line)))

\* a str among requirement objects: [text |-> the characters]
Text(chars) == [text |-> chars]
IsString(r) == DOMAIN r = {"text"}

\* str(req) of a requirement without marker: the name and the specifier
str_req(req) == req.name \o req.spec

\* pkg_resources.Requirement.parse on the texts of the model
Requirement_parse(chars) ==
    LET parsed(name, spec) ==
            [key |-> IF name = "Foo" THEN "foo" ELSE name, name |-> name,
             project_name |-> name, spec |-> spec]
        py3 == [marker |-> <<MarkerTuple("python_version", "3")>>]
    IN  CASE chars = "Foo" -> parsed("Foo", "")
          [] chars = "Foo>=1.0" -> parsed("Foo", ">=1.0")
          [] chars = "bar" -> parsed("bar", "")
          [] chars = "Foo; python_version<'3'" -> parsed("Foo", "") @@ py3
          [] chars = "Foo>=1.0; python_version<'3'" ->
                parsed("Foo", ">=1.0") @@ py3
          [] chars = "bar; python_version<'3'" -> parsed("bar", "") @@ py3

\* ensure_reqs: drops falsy entries, parses strings, keeps requirement objects
ensure_reqs(reqs) ==
    LET new_reqs == SelectSeq(reqs, LAMBDA r : ~(IsString(r) /\ r.text = ""))
    IN  [i \in DOMAIN new_reqs |->
            IF IsString(new_reqs[i]) THEN Requirement_parse(new_reqs[i].text)
            ELSE new_reqs[i]]

-----------------------------------------------------------------------------
(* Config-File Extractor: module-level parse_setup_cfg.                    *)
(* A config file is the record of what it declares: a scalar option is its *)
(* text or None, a multi-line option is <<>> (undeclared) or <<lines>>,    *)
(* the options.extras_require section is <<>> (no such section) or         *)
(* <<options>>, each option a pair <<name, lines>>.  A multi-line value is *)
(* the sequence of its lines, so value.split("\n") is the value itself.    *)

\* dict.get(key) / dict.get(key, default) on a mapping with string keys
Get(d, k, default) == IF k \in DOMAIN d THEN d[k] ELSE default

\* the directive a scalar entry starts with: startswith("file:") / ("attr:")
DirectiveOf(setup_entry) ==
    CASE setup_entry = "file: VERSION" -> "file"
      [] setup_entry \in {"attr: pkg.__version__", "attr: pkg.version_info",
                          "attr: pkg"} -> "attr"
      [] OTHER -> "literal"

\* setup_entry.split("file:")[1].strip() / split("attr:")[1].strip()
directive_target(setup_entry) ==
    CASE setup_entry = "file: VERSION" -> "VERSION"
      [] setup_entry = "attr: pkg.__version__" -> "pkg.__version__"
      [] setup_entry = "attr: pkg.version_info" -> "pkg.version_info"
      [] setup_entry = "attr: pkg" -> "pkg"

\* resource.rpartition("."): <<module, attribute>>, <<>> when there is no dot
rpartition(resource) ==
    CASE resource = "pkg.__version__" -> <<"pkg", "__version__">>
      [] resource = "pkg.version_info" -> <<"pkg", "version_info">>
      [] resource = "pkg" -> <<>>

\* str(rv) of an attribute value that is no string
str_value(rv) == CASE rv = [tuple |-> <<1, 0>>] -> "(1, 0)"

\* a world in which nothing is on disk and nothing can be imported
EmptyWorld == [files |-> <<>>, modules |-> <<>>]

\* parse_special_directives: [raised, rv].  world.files maps the paths that
\* exist to their contents, world.modules the importable modules to their
\* attributes, a value being [text |-> chars] or a non-string object
parse_special_directives(setup_entry, world) ==
    LET returns(rv) == [raised |-> FALSE, rv |-> rv]
        raises == [raised |-> TRUE, rv |-> ""]
        target == directive_target(setup_entry)
    IN  CASE DirectiveOf(setup_entry) = "literal" -> returns(setup_entry)
          [] DirectiveOf(setup_entry) = "file" ->
                IF target \in DOMAIN world.files
                THEN returns(world.files[target])
                ELSE returns(setup_entry)
          [] DirectiveOf(setup_entry) = "attr" ->
                LET resource == IF rpartition(target) = <<>> THEN target
                                ELSE rpartition(target)[1]
                IN  IF resource \notin DOMAIN world.modules THEN raises
                    ELSE IF rpartition(target) = <<>> THEN raises
                    ELSE LET module == world.modules[resource]
                             attribute == rpartition(target)[2]
                         IN  IF attribute \notin DOMAIN module THEN raises
                             ELSE IF IsString(module[attribute])
                                  THEN returns(module[attribute].text)
                                  ELSE returns(str_value(module[attribute]))

\* line.startswith("#")
IsComment(line) == line = "#dev"

\* set(text) of a raw option value: the characters of its lines, and the
\* newline that joins them
Chars(line) ==
    CASE line = "cy" -> {"c", "y"}
      [] line = "" -> {}
CharSet(lines) ==
    UNION {Chars(lines[i]) : i \in DOMAIN lines}
        \cup (IF Len(lines) > 1 THEN {"\n"} ELSE {})

\* the options of the DEFAULT section (the keys of default_opts), which
\* parser.options() lists for every section
DefaultOptions == <<"metadata", "options">>

\* lines 196-211: the extras_require sections with at least one requirement
cfg_extras(file) ==
    IF file.extras_require = <<>> THEN <<>>
    ELSE LET declared ==
                 file.extras_require[1]
                     \o [i \in DOMAIN DefaultOptions |->
                            <<DefaultOptions[i], <<"{...}">>>>]
             keep(opt) ==
                 /\ opt[1] \notin Items(DefaultOptions)
                 /\ \E i \in DOMAIN opt[2] :
                        opt[2][i] # "" /\ ~IsComment(opt[2][i])
             lines(opt) ==
                 SelectSeq(opt[2], LAMBDA l : l # "" /\ ~IsComment(l))
             kept == SelectSeq(declared, keep)
         IN  [i \in DOMAIN kept |->
                 <<kept[i][1],
                   [j \in DOMAIN lines(kept[i]) |->
                       from_string(lines(kept[i])[j])]>>]

\* parse_setup_cfg raises when a directive of name, version or
\* python_requires does
parse_setup_cfg_raises(file, world) ==
    \E v \in {file.name, file.version, file.python_requires} :
        v # None /\ parse_special_directives(v, world).raised

\* parse_setup_cfg with the name defaulted to "" when the file declares none
parse_setup_cfg_defaulting_name(file, world) ==
    LET scalar(k, v) ==
            IF v # None THEN (k :> parse_special_directives(v, world).rv)
            ELSE <<>>
        install_requires ==
            IF file.install_requires = <<>> THEN {}
            ELSE {from_string(dep) :
                     dep \in {d \in Items(file.install_requires[1]) : d # ""}}
        build ==
            IF file.build_requires # <<>>
            THEN ("build_requires" :> file.build_requires[1]) ELSE <<>>
    IN  scalar("name", IF file.name # None THEN file.name ELSE "") @@ scalar("version", file.version)
        @@ ("install_requires" :> install_requires)
        @@ scalar("python_requires", file.python_requires)
        @@ build
        @@ ("extras_require" :> cfg_extras(file))

\* parse_setup_cfg(setup_cfg_path) for an existing file: the results dict
parse_setup_cfg(file, world) ==
    LET scalar(k, v) ==
            IF v # None THEN (k :> parse_special_directives(v, world).rv)
            ELSE <<>>
        install_requires ==
            IF file.install_requires = <<>> THEN {}
            ELSE {from_string(dep) :
                     dep \in {d \in Items(file.install_requires[1]) : d # ""}}
        build ==
            IF file.build_requires # <<>>
            THEN ("build_requires" :> file.build_requires[1]) ELSE <<>>
    IN  scalar("name", file.name) @@ scalar("version", file.version)
        @@ ("install_requires" :> install_requires)
        @@ scalar("python_requires", file.python_requires)
        @@ build
        @@ ("extras_require" :> cfg_extras(file))

-----------------------------------------------------------------------------
(* The SetupInfo aggregate.  build_requires is kept as the set of its      *)
(* items: the code rebuilds it with tuple(set(...)), whose order is not    *)
(* fixed.  ireq is <<>> (None) or <<requirement>>, metadata is <<>> (None) *)
(* or <<m>>, m the record populate_metadata last flattened.               *)

\* get_default_pyproject_backend()
DefaultBackend == "setuptools.build_meta:__legacy__"

\* the attr.ib defaults of SetupInfo
NewSetupInfo(ireq) ==
    [name |-> None, version |-> None, _requirements |-> {},
     build_requires |-> {}, build_backend |-> DefaultBackend,
     setup_requires |-> <<>>, python_requires |-> None,
     _extras_requirements |-> <<>>, metadata |-> <<>>, ireq |-> ireq]

\* getattr(self.ireq, "extras", None), in the order the requirement iterates them
ireq_extras(s) == IF s.ireq = <<>> THEN <<>> ELSE s.ireq[1].extras

\* SetupInfo.requires: one entry per name; which record of a name is kept
\* follows the iteration order of the frozenset, so every choice is possible
requires(s) ==
    LET names == {r.name : r \in s._requirements}
    IN  {d \in [names -> {r.requirement : r \in s._requirements}] :
            \A n \in names :
                \E r \in s._requirements : r.name = n /\ r.requirement = d[n]}

\* SetupInfo.extras: one list per section; which declaration of a section is
\* kept follows the iteration order of set(self._extras_requirements)
extras(s) ==
    LET pairs == Items(s._extras_requirements)
        sections == {pr[1] : pr \in pairs}
        listing(deps) == [i \in DOMAIN deps |-> deps[i].requirement]
    IN  {d \in [sections -> {listing(pr[2]) : pr \in pairs}] :
            \A sec \in sections :
                \E pr \in pairs : pr[1] = sec /\ d[sec] = listing(pr[2])}

\* lines 649-658 for one requested extra, under one outcome e of self.extras
cfg_requested_extra(s, extra, e) ==
    IF extra \in DOMAIN e
    THEN LET extras_tuple == [i \in DOMAIN e[extra] |-> from_req(e[extra][i])]
         IN  [s EXCEPT
                 !._extras_requirements = Append(@, <<extra, extras_tuple>>),
                 !._requirements = @ \cup Items(extras_tuple)]
    ELSE s

\* the loop of lines 650-658 over self.ireq.extras[i..]
RECURSIVE cfg_requested_extras(_, _)
cfg_requested_extras(S, i) ==
    IF \A s \in S : i > Len(ireq_extras(s)) THEN S
    ELSE cfg_requested_extras(
             UNION {{cfg_requested_extra(s, ireq_extras(s)[i], e) : e \in extras(s)} :
                       s \in S},
             i + 1)

\* lines 629-632: name and version are taken only while they are None
cfg_identity(s, parsed) ==
    [s EXCEPT
        !.name = IF s.name = None THEN Get(parsed, "name", None) ELSE @,
        !.version = IF s.version = None THEN Get(parsed, "version", None) ELSE @]

\* lines 633-637: parsed.get("build_requires", []) is the raw option text, and
\* it is merged only into a build_requires that is already non-empty
cfg_build_requires(s, parsed) ==
    LET build_requires == Get(parsed, "build_requires", <<>>)
    IN  IF s.build_requires # {}
        THEN [s EXCEPT !.build_requires = @ \cup CharSet(build_requires)]
        ELSE s

\* lines 638-640
cfg_requirements(s, parsed) ==
    [s EXCEPT !._requirements = @ \cup parsed.install_requires]

\* lines 641-648
cfg_python_and_extras(s, parsed) ==
    [s EXCEPT
        !.python_requires =
            IF s.python_requires = None
            THEN Get(parsed, "python_requires", None) ELSE @,
        !._extras_requirements =
            IF s._extras_requirements = <<>> THEN parsed.extras_require
            ELSE @ \o parsed.extras_require]

\* SetupInfo.parse_setup_cfg without lines 649-658: the extras the originating
\* requirement requests are not merged into the requirement set
SetupInfo_parse_setup_cfg_without_requested(s, file) ==
    LET parsed == parse_setup_cfg(file, EmptyWorld)
    IN  {cfg_python_and_extras(
             cfg_requirements(
                 cfg_build_requires(cfg_identity(s, parsed), parsed),
                 parsed),
             parsed)}

\* SetupInfo.parse_setup_cfg on an existing setup.cfg: the possible results
SetupInfo_parse_setup_cfg(s, file) ==
    LET parsed == parse_setup_cfg(file, EmptyWorld)
        merged == cfg_python_and_extras(
                      cfg_requirements(
                          cfg_build_requires(cfg_identity(s, parsed), parsed),
                          parsed),
                      parsed)
    IN  cfg_requested_extras({merged}, 1)

\* lines 847-858: self.metadata becomes the flattened record
populate_snapshot(s, metadata) == [s EXCEPT !.metadata = <<metadata>>]

\* lines 859-862 without the guard of line 861: the record's version replaces
\* the recorded one
populate_identity_unguarded_version(s, metadata) ==
    [s EXCEPT
        !.name = IF s.name = None THEN metadata.name ELSE @,
        !.version = metadata.version]

\* lines 859-862
populate_identity(s, metadata) ==
    [s EXCEPT
        !.name = IF s.name = None THEN metadata.name ELSE @,
        !.version = IF Falsy(s.version) THEN metadata.version ELSE @]

\* lines 863-866 without the union: the record's dependencies replace the set
populate_requirements_replacing(s, metadata) ==
    [s EXCEPT !._requirements =
        {from_req(req) : req \in Items(metadata.requires)}]

\* lines 863-866 with one record kept per name: a record of the set gives way
\* to a dependency of the same name
populate_requirements_by_name(s, metadata) ==
    LET added == {from_req(req) : req \in Items(metadata.requires)}
    IN  [s EXCEPT !._requirements =
            {r \in @ : \A a \in added : a.name # r.name} \cup added]

\* lines 863-866
populate_requirements(s, metadata) ==
    [s EXCEPT !._requirements =
        @ \cup {from_req(req) : req \in Items(metadata.requires)}]

\* lines 869-881 with line 879 merging what self._extras_requirements already
\* declares for the extra in place of the record's extras_tuple
populate_requested_extra_from_declared(s, metadata, extra) ==
    LET found == Get(metadata.extras, extra, <<>>)
        kept == ensure_reqs(found)
        extras_tuple == [j \in DOMAIN kept |-> from_req(kept[j])]
        declared == UNION {Items(pr[2]) :
                              pr \in {x \in Items(s._extras_requirements) :
                                         x[1] = extra}}
    IN  IF found # <<>>
        THEN [s EXCEPT
                 !._extras_requirements = Append(@, <<extra, extras_tuple>>),
                 !._requirements = @ \cup declared]
        ELSE s

\* lines 869-881 for one requested extra
populate_requested_extra(s, metadata, extra) ==
    LET found == Get(metadata.extras, extra, <<>>)
        kept == ensure_reqs(found)
        extras_tuple == [j \in DOMAIN kept |-> from_req(kept[j])]
    IN  IF found # <<>>
        THEN [s EXCEPT
                 !._extras_requirements = Append(@, <<extra, extras_tuple>>),
                 !._requirements = @ \cup Items(extras_tuple)]
        ELSE s

\* lines 867-868: the loop over self.ireq.extras[i..]
RECURSIVE populate_requested_extras(_, _, _)
populate_requested_extras(s, metadata, i) ==
    IF i > Len(ireq_extras(s)) THEN s
    ELSE populate_requested_extras(
             populate_requested_extra(s, metadata, ireq_extras(s)[i]),
             metadata, i + 1)

\* SetupInfo.populate_metadata
populate_metadata(s, metadata) ==
    populate_requested_extras(
        populate_requirements(
            populate_identity(populate_snapshot(s, metadata), metadata),
            metadata),
        metadata, 1)

\* SetupInfo.get_egg_metadata: found is <<>> when no searched directory holds
\* matching metadata, else <<metadata>>, the first non-empty get_metadata result
get_egg_metadata(s, found) ==
    IF found # <<>> THEN populate_metadata(s, found[1]) ELSE s

\* SetupInfo.run_pyproject on an existing pyproject.toml: result is <<>> when
\* get_pyproject returned None, else <<[requires, backend]>>
run_pyproject(s, result) ==
    IF result = <<>> THEN s
    ELSE LET requires_ == result[1].requires
             backend == result[1].backend
         IN  [s EXCEPT
                 !.build_backend =
                     IF ~Falsy(backend) THEN backend ELSE DefaultBackend,
                 !.build_requires =
                     IF requires_ # <<>> THEN Items(requires_) \cup @
                     ELSE {"setuptools", "wheel"}]

-----------------------------------------------------------------------------
(* What a step did, kept in `last` for the properties: the stages it ran,  *)
(* in order; the name and version the merged source carried; the build-time *)
(* dependencies the source declared; and whether populate_metadata was      *)
(* handed the record it had flattened last.                                 *)

Did(events, name, version) ==
    [events |-> events, name |-> name, version |-> version,
     declared |-> {}, repeat |-> FALSE]
Skipped == Did(<<>>, None, None)
Declared(events, declared) == [Did(events, None, None) EXCEPT !.declared = declared]
Probed(s, events, found) ==
    IF found = <<>> THEN Did(events, None, None)
    ELSE [Did(events \o <<"populate_metadata">>, found[1].name, found[1].version)
             EXCEPT !.repeat = (s.metadata = found)]

-----------------------------------------------------------------------------
(* Legacy Script Runner: SetupInfo.run_setup.                              *)

\* setup_py.parent, the script path, and the metadata-only arguments
TargetCwd == "pkg"
ScriptName == "pkg/setup.py"
EggInfoArgs == <<"egg_info", "--egg-base", "pkg/reqlib-metadata">>

\* distutils' Distribution.get_name / get_version / get_requires
get_name(dist) == IF dist.name = None THEN "UNKNOWN" ELSE dist.name
get_version(dist) == IF dist.version = None THEN "0.0.0" ELSE dist.version
get_requires(dist) == dist.requires

\* lines 672-675: before 3.5 save_argv is the sys.argv list itself, from 3.5
\* on it is a copy of it
save_argv(p) == [alias |-> p.py_lt_35, copy |-> p.argv]

\* lines 679-680: the list sys.argv names is rewritten in place
set_argv(p) == [p EXCEPT !.argv = <<ScriptName>> \o EggInfoArgs]

\* line 699: sys.argv = save_argv; an aliased save_argv is the rewritten list
restore_argv(p, saved) ==
    [p EXCEPT !.argv = IF saved.alias THEN p.argv ELSE saved.copy]

\* vistir's cd(): chdir on entry, chdir back in a finally clause
cd_enter(p, path) == [p EXCEPT !.cwd = path]
cd_exit(p, prev_cwd) == [p EXCEPT !.cwd = prev_cwd]

\* _suppress_distutils_logs: Log._log is wrapped on entry and put back after
\* the yield, which an exception thrown into the generator never reaches.
\* Log_log counts the wrappers around the original function.
suppress_enter(p) == [p EXCEPT !.Log_log = @ + 1]
suppress_exit(p, f, raised) == IF raised THEN p ELSE [p EXCEPT !.Log_log = f]

\* the exec'd script, and the subprocess after a NameError: the script may
\* store a distribution object in the module's _setup_distribution slot.
\* slot_stale tells whether the object in the slot was stored before the last
\* reload.
script_effect(p, env) ==
    [p EXCEPT !._setup_distribution = IF env.sets # <<>> THEN env.sets ELSE @,
              !.slot_stale = IF env.sets # <<>> THEN FALSE ELSE @]
script_raises(env) ==
    \/ env.script = "Exception"
    \/ env.script = "NameError" /\ env.sub = "raise"

\* lines 705-707
dist_name(s, dist) ==
    LET name == get_name(dist)
    IN  IF ~Falsy(name) THEN [s EXCEPT !.name = name] ELSE s

\* lines 708-711
dist_python_requires(s, dist) ==
    IF ~Falsy(dist.python_requires) /\ Falsy(s.python_requires)
    THEN [s EXCEPT !.python_requires = dist.python_requires] ELSE s

\* line 715 unpacks each key of the extras_require dict into a pair, which
\* raises ValueError unless the key is two characters long; no extra name of
\* the model is
UnpacksAsPair(key) == FALSE
dist_extras_raises(s, dist) ==
    /\ DOMAIN dist.extras_require # {}
    /\ s._extras_requirements = <<>>
    /\ \E key \in DOMAIN dist.extras_require : ~UnpacksAsPair(key)

\* line 729 over self.ireq.extras[i..]: the lists of self.extras, under the
\* outcome e of self.extras
RECURSIVE dist_requested(_, _, _)
dist_requested(s, e, i) ==
    IF i > Len(ireq_extras(s)) THEN {}
    ELSE Items(Get(e, ireq_extras(s)[i], <<>>)) \cup dist_requested(s, e, i + 1)

\* lines 720-730
dist_requirements(s, dist, e) ==
    LET install_requires ==
            IF get_requires(dist) # <<>> THEN get_requires(dist)
            ELSE dist.install_requires
        requirements ==
            {from_req(req) : req \in Items(install_requires)}
                \cup dist_requested(s, e, 1)
    IN  IF install_requires # <<>> /\ s._requirements = {}
        THEN [s EXCEPT !._requirements = @ \cup requirements] ELSE s

\* lines 731-734
dist_setup_requires_version(s, dist) ==
    [s EXCEPT
        !.setup_requires =
            IF dist.setup_requires # <<>> /\ s.setup_requires = <<>>
            THEN dist.setup_requires ELSE @,
        !.version = IF Falsy(s.version) THEN get_version(dist) ELSE @]

\* lines 705-734: the possible results of merging the captured distribution
merge_dist(s, dist) ==
    LET s2 == dist_python_requires(dist_name(s, dist), dist)
    IN  IF dist_extras_raises(s2, dist)
        THEN {[si |-> s2, raised |-> TRUE]}
        ELSE {[si |-> dist_setup_requires_version(
                          dist_requirements(s2, dist, e), dist),
               raised |-> FALSE] : e \in extras(s2)}

\* SetupInfo.run_setup with setup.py present, with the except clause of line
\* 686 catching the exceptions in caught.  env is what the environment
\* does during the call: how the script ends, what it leaves in the slot, how
\* the subprocess ends, and what get_egg_metadata finds (or that it raises).
run_setup_catching(s, p, env, caught) ==
    LET prev_cwd == p.cwd
        f == p.Log_log
        p1 == suppress_enter(cd_enter(p, TargetCwd))
        saved == save_argv(p1)
        p2 == script_effect(set_argv([p1 EXCEPT !._setup_stop_after = "run"]), env)
        p3 == restore_argv([p2 EXCEPT !._setup_stop_after = None], saved)
        leave(pp, raised) == cd_exit(suppress_exit(pp, f, raised), prev_cwd)
        ran == <<"setup.py">>
                   \o (IF env.script \in caught THEN <<"subprocess">> ELSE <<>>)
        \* lines 687-694: run([python, "setup.py"] + args, cwd=target_cwd)
        calls == IF env.script \in caught
                 THEN <<[cmd |-> <<"python", "setup.py">> \o EggInfoArgs,
                         cwd |-> TargetCwd]>>
                 ELSE <<>>
        dist == p3._setup_distribution
    IN  IF script_raises(env)
        THEN {[si |-> s, proc |-> leave(p3, TRUE), raised |-> TRUE,
               subprocess |-> calls,
               did |-> Did(ran, None, None)]}
        ELSE IF dist = <<>>
        THEN {[si |-> IF env.probe_raises THEN s
                      ELSE get_egg_metadata(s, env.found),
               proc |-> leave(p3, env.probe_raises),
               raised |-> env.probe_raises,
               subprocess |-> calls,
               did |-> IF env.probe_raises
                       THEN Did(ran \o <<"probe_raised">>, None, None)
                       ELSE Probed(s, ran \o <<"probe">>, env.found)]}
        ELSE {[si |-> r.si, proc |-> leave(p3, r.raised), raised |-> r.raised,
               subprocess |-> calls,
               did |-> Did(ran \o <<"dist">>, get_name(dist[1]),
                           get_version(dist[1]))] :
                 r \in merge_dist(s, dist[1])}

\* SetupInfo.run_setup with every exception of the script answered by the
\* subprocess run
run_setup_catching_all(s, p, env) ==
    run_setup_catching(s, p, env, {"NameError", "Exception"})

\* SetupInfo.run_setup with setup.py present: line 686 catches NameError
run_setup(s, p, env) == run_setup_catching(s, p, env, {"NameError"})

-----------------------------------------------------------------------------
(* What the environment may hand to a stage.                               *)

\* setup.cfg contents: with or without the identity options, with or without
\* the dependency options
CfgFiles ==
    {[name |-> IF id THEN "pkgA" ELSE None,
      version |-> IF id THEN "1.0" ELSE None,
      python_requires |-> IF id THEN ">=3.6" ELSE None,
      install_requires |-> IF deps THEN << <<"", "foo ", "bar">> >> ELSE <<>>,
      build_requires |-> IF deps THEN << <<"cy">> >> ELSE <<>>,
      extras_require |->
          IF deps THEN << << <<"docs", <<"", "#dev", "foo>=1.0">>>> >> >>
          ELSE <<>>] : id \in BOOLEAN, deps \in BOOLEAN}

\* get_pyproject() results
PyprojectResults ==
    {<<>>, <<[requires |-> <<>>, backend |-> None]>>,
     <<[requires |-> <<"cy">>, backend |-> "flit.buildapi"]>>}

\* metadata records of a built wheel or an installed-metadata directory
MetadataRecords ==
    {[name |-> x[1], version |-> "2.0",
      requires |-> IF x[2] THEN <<foo1>> ELSE <<>>,
      extras |-> IF x[2] THEN [docs |-> <<barAny>>] ELSE <<>>] :
        x \in {<<None, FALSE>>, <<None, TRUE>>, <<"pkgA", TRUE>>,
               <<"pkgB", FALSE>>}}

\* distribution objects a setup.py may construct
Dists ==
    {[name |-> IF x[1] THEN "pkgB" ELSE None,
      version |-> IF x[1] THEN "2.0" ELSE None,
      python_requires |-> IF x[2] > 0 THEN ">=2.7" ELSE None,
      extras_require |-> IF x[2] > 1 THEN [docs |-> <<barAny>>] ELSE <<>>,
      requires |-> <<>>,
      install_requires |-> IF x[2] > 0 THEN <<foo1>> ELSE <<>>,
      setup_requires |-> IF x[2] > 0 THEN <<"setuptools_scm">> ELSE <<>>] :
        x \in {<<FALSE, 0>>, <<TRUE, 1>>, <<TRUE, 2>>}}

\* originating requirements: None, or one that requests the extra docs
Ireqs == {<<>>, <<[extras |-> <<"docs">>]>>}

\* package_indicators of get_egg_metadata: the directories are searched only
\* when one of the declaration files exists
any_indicator(f) == f.pyproject \/ f.setup_py \/ f.setup_cfg

\* what get_egg_metadata may find: get_metadata filters by self.name
ProbeFinds(s, f) ==
    {<<>>} \cup
    (IF any_indicator(f)
     THEN {<<m>> : m \in {x \in MetadataRecords :
                             s.name = None \/ x.name = s.name}}
     ELSE {})

\* what may happen during one run_setup call: the script or the subprocess
\* raises; or they end normally, with a distribution in the slot or with none
\* and get_egg_metadata finding something, nothing, or raising
RunSetupEnvs(s, f) ==
    LET slots == {<<>>} \cup {<<d>> : d \in Dists}
        env(script, sets, sub, probe_raises, found) ==
            [script |-> script, sets |-> sets, sub |-> sub,
             probe_raises |-> probe_raises, found |-> found]
    IN  {env("Exception", sets, "ok", FALSE, <<>>) : sets \in slots}
        \cup {env("NameError", sets, "raise", FALSE, <<>>) : sets \in slots}
        \cup {env(script, <<d>>, "ok", FALSE, <<>>) :
                 script \in {"ok", "NameError"}, d \in Dists}
        \cup {env(script, <<>>, "ok", FALSE, found) :
                 script \in {"ok", "NameError"}, found \in ProbeFinds(s, f)}
        \cup {env(script, <<>>, "ok", any_indicator(f), <<>>) :
                 script \in {"ok", "NameError"}}

-----------------------------------------------------------------------------
(* The caller: SetupInfo.create runs get_info once; reload() runs it again. *)

BaseDir == "src"
HomeCwd == "home"

\* SetupInfo.as_dict: the entries whose value is truthy.  The three paths are
\* Path objects and extra_kwargs is the non-empty dict from_ireq passes.
as_dict(s, requires_, extras_) ==
    LET opt(k, present, v) == IF present THEN (k :> v) ELSE <<>>
    IN  opt("name", ~Falsy(s.name), s.name)
        @@ opt("version", ~Falsy(s.version), s.version)
        @@ ("base_dir" :> BaseDir)
        @@ opt("ireq", s.ireq # <<>>, s.ireq)
        @@ opt("build_backend", ~Falsy(s.build_backend), s.build_backend)
        @@ opt("build_requires", s.build_requires # {}, s.build_requires)
        @@ opt("requires", DOMAIN requires_ # {}, requires_)
        @@ opt("setup_requires", s.setup_requires # <<>>, s.setup_requires)
        @@ opt("python_requires", ~Falsy(s.python_requires), s.python_requires)
        @@ opt("extras", DOMAIN extras_ # {}, extras_)
        @@ ("extra_kwargs" :> "kwargs")
        @@ ("setup_cfg" :> "src/sub/setup.cfg")
        @@ ("setup_py" :> ScriptName)
        @@ ("pyproject" :> "src/pyproject.toml")

NoResult == [status |-> "none", value |-> <<>>]
Raised == [status |-> "raised", value |-> <<>>]
Returned(d) == [status |-> "returned", value |-> d]

\* the build-time dependencies a setup.cfg declares: the non-empty lines of
\* its build_requires option
cfg_declared(file) ==
    IF file.build_requires = <<>> THEN {}
    ELSE {l \in Items(file.build_requires[1]) : l # ""}

\* lines 799, 801 with `and` in place of `or`
incomplete_both(s) == s.metadata = <<>> /\ Falsy(s.name)

\* `not self.metadata or not self.name` (lines 799, 801)
incomplete(s) == s.metadata = <<>> \/ Falsy(s.name)

\* the with cd(self.base_dir) blocks of get_info
enter_base(p) == cd_enter([p EXCEPT !.cd_saved = <<p.cwd>> \o @], BaseDir)
leave_base(p) == [cd_exit(p, p.cd_saved[1]) EXCEPT !.cd_saved = Tail(@)]

\* an exception starts to propagate out of the stage that raised it
Propagate(p) ==
    /\ proc' = p
    /\ pc' = "unwind"
    /\ UNCHANGED out

Init ==
    /\ si \in {NewSetupInfo(ireq) : ireq \in Ireqs}
    /\ fs \in [setup_cfg : BOOLEAN, setup_py : BOOLEAN, pyproject : BOOLEAN,
               written : {FALSE}]
    /\ proc \in [cwd : {HomeCwd}, cd_saved : {<<>>}, argv : {<<"prog", "-v">>},
                 Log_log : {0}, _setup_distribution : {<<>>},
                 slot_stale : {FALSE},
                 _setup_stop_after : {None}, py_lt_35 : BOOLEAN]
    /\ pc = "get_info"
    /\ last = Skipped
    /\ out = NoResult
    /\ reloads = 0

\* get_info lines 900-902
GetInfoParseSetupCfg ==
    /\ pc = "get_info"
    /\ pc' = "run_pyproject"
    /\ IF fs.setup_cfg
       THEN \E file \in CfgFiles :
                /\ si' \in SetupInfo_parse_setup_cfg(si, file)
                /\ last' = [Did(<<"parse_setup_cfg">>, file.name, file.version)
                               EXCEPT !.declared = cfg_declared(file)]
       ELSE UNCHANGED si /\ last' = Skipped
    /\ UNCHANGED <<fs, proc, out, reloads>>

\* get_info lines 904-905
GetInfoRunPyproject ==
    /\ pc = "run_pyproject"
    /\ pc' = "build_wheel"
    /\ proc' = enter_base(proc)
    /\ IF fs.pyproject
       THEN \E result \in PyprojectResults :
                /\ si' = run_pyproject(si, result)
                /\ last' = Declared(<<"run_pyproject">>,
                                    IF result = <<>> THEN {}
                                    ELSE Items(result[1].requires))
       ELSE UNCHANGED si /\ last' = Skipped
    /\ UNCHANGED <<fs, out, reloads>>

\* build line 788: build_wheel writes pyproject.toml when there is none, then
\* runs the backend, which returns the wheel's path or raises.  fs.written
\* tells that build_wheel wrote the pyproject.toml during the current pass.
BuildWheel ==
    /\ pc = "build_wheel"
    /\ fs' = [fs EXCEPT !.pyproject = TRUE, !.written = @ \/ ~fs.pyproject]
    /\ \E ok \in BOOLEAN :
          /\ pc' = IF ok THEN "wheel_metadata" ELSE "build_sdist"
          /\ last' = Did(<<IF ok THEN "build_wheel" ELSE "build_wheel_raised">>,
                         None, None)
    /\ UNCHANGED <<si, proc, out, reloads>>

\* build lines 789-794: build_sdist and get_egg_metadata("egg"), any exception
\* of either swallowed
BuildSdist ==
    /\ pc = "build_sdist"
    /\ pc' = "probe"
    /\ \/ /\ last' = Did(<<"build_sdist_raised">>, None, None)
          /\ UNCHANGED si
       \/ \E found \in ProbeFinds(si, fs) :
             /\ si' = get_egg_metadata(si, found)
             /\ last' = Probed(si, <<"build_sdist", "probe">>, found)
       \/ /\ any_indicator(fs)
          /\ last' = Did(<<"build_sdist", "probe_raised">>, None, None)
          /\ UNCHANGED si
    /\ UNCHANGED <<fs, proc, out, reloads>>

\* build lines 795-798: get_metadata_from_wheel on the built wheel; opening or
\* parsing the archive may raise, and nothing in build catches it
WheelMetadata ==
    /\ pc = "wheel_metadata"
    /\ \/ \E metadata_dict \in MetadataRecords :
             /\ si' = populate_metadata(si, metadata_dict)
             /\ last' = Probed(si, <<"wheel_metadata">>, <<metadata_dict>>)
             /\ pc' = "probe"
             /\ UNCHANGED <<proc, out>>
       \/ /\ last' = Did(<<"wheel_metadata_raised">>, None, None)
          /\ Propagate(proc)
          /\ UNCHANGED si
    /\ UNCHANGED <<fs, reloads>>

\* build lines 799-800
BuildProbe ==
    /\ pc = "probe"
    /\ IF incomplete(si)
       THEN \/ \E found \in ProbeFinds(si, fs) :
                   /\ si' = get_egg_metadata(si, found)
                   /\ last' = Probed(si, <<"probe">>, found)
                   /\ pc' = "build_run_setup"
                   /\ UNCHANGED <<proc, out>>
            \/ /\ any_indicator(fs)
               /\ last' = Did(<<"probe_raised">>, None, None)
               /\ Propagate(proc)
               /\ UNCHANGED si
       ELSE /\ pc' = "build_run_setup"
            /\ last' = Skipped
            /\ UNCHANGED <<si, proc, out>>
    /\ UNCHANGED <<fs, reloads>>

\* one run_setup call and where it leaves the caller: at caught_pc when it
\* raises, else at next_pc
RunSetupCall(next_pc, caught_pc) ==
    \E env \in RunSetupEnvs(si, fs) :
    \E r \in run_setup(si, proc, env) :
        /\ si' = r.si
        /\ last' = r.did
        /\ proc' = r.proc
        /\ pc' = IF r.raised THEN caught_pc ELSE next_pc
        /\ UNCHANGED out

\* build lines 801-803
BuildRunSetup ==
    /\ pc = "build_run_setup"
    /\ IF incomplete(si) /\ fs.setup_py
       THEN RunSetupCall("end_build", "unwind")
       ELSE /\ pc' = "end_build"
            /\ last' = Skipped
            /\ UNCHANGED <<si, proc, out>>
    /\ UNCHANGED <<fs, reloads>>

\* build returns and the cd block of get_info line 904 ends
EndBuild ==
    /\ pc = "end_build"
    /\ proc' = leave_base(proc)
    /\ pc' = "after_build"
    /\ last' = Skipped
    /\ UNCHANGED <<si, fs, out, reloads>>

\* get_info lines 908-909, and line 911 when they hold
AfterBuild ==
    /\ pc = "after_build"
    /\ IF fs.setup_py /\ si.metadata = <<>>
          /\ (si._requirements = {} \/ Falsy(si.name))
       THEN pc' = "final_run_setup" /\ proc' = enter_base(proc)
       ELSE pc' = "return" /\ UNCHANGED proc
    /\ last' = Skipped
    /\ UNCHANGED <<si, fs, out, reloads>>

\* get_info line 912: run_setup inside try
FinalRunSetup ==
    /\ pc = "final_run_setup"
    /\ RunSetupCall("final_leave", "final_leave_raised")
    /\ UNCHANGED <<fs, reloads>>

\* the cd block of line 911 ends, normally or by the exception line 913 catches
FinalLeave ==
    /\ pc \in {"final_leave", "final_leave_raised"}
    /\ proc' = leave_base(proc)
    /\ pc' = IF pc = "final_leave" THEN "final_probe" ELSE "final_except"
    /\ last' = Skipped
    /\ UNCHANGED <<si, fs, out, reloads>>

\* an exception nothing catches leaves the open cd block, if any, and get_info
Unwind ==
    /\ pc = "unwind"
    /\ proc' = IF proc.cd_saved # <<>> THEN leave_base(proc) ELSE proc
    /\ pc' = "raised"
    /\ out' = Raised
    /\ last' = Skipped
    /\ UNCHANGED <<si, fs, reloads>>

\* get_egg_metadata() inside with cd(self.base_dir), lines 914-915 and 917-918
GetInfoProbe(from, to) ==
    /\ pc = from
    /\ \/ \E found \in ProbeFinds(si, fs) :
             /\ si' = get_egg_metadata(si, found)
             /\ last' = Probed(si, <<"probe">>, found)
             /\ pc' = to
             /\ UNCHANGED <<proc, out>>
       \/ /\ any_indicator(fs)
          /\ last' = Did(<<"probe_raised">>, None, None)
          /\ Propagate(proc)
          /\ UNCHANGED si
    /\ UNCHANGED <<fs, reloads>>

\* get_info lines 913-915
FinalExcept == GetInfoProbe("final_except", "final_probe")

\* get_info lines 916-918
FinalProbe ==
    \/ /\ incomplete(si)
       /\ GetInfoProbe("final_probe", "return")
    \/ /\ ~incomplete(si)
       /\ pc = "final_probe"
       /\ pc' = "return"
       /\ last' = Skipped
       /\ UNCHANGED <<si, fs, proc, out, reloads>>

\* get_info line 920
Return ==
    /\ pc = "return"
    /\ pc' = "done"
    /\ \E requires_ \in requires(si), extras_ \in extras(si) :
          out' = Returned(as_dict(si, requires_, extras_))
    /\ last' = Skipped
    /\ UNCHANGED <<si, fs, proc, reloads>>

\* SetupInfo.reload, lines 810-815, up to its call of get_info.  create hands
\* the object out only when its get_info returned; a reload that raised leaves
\* the object with its holder.
Reload ==
    /\ pc = "done" \/ (pc = "raised" /\ reloads > 0)
    /\ reloads < MaxReloads
    /\ reloads' = reloads + 1
    /\ si' = [si EXCEPT !.metadata = <<>>, !._requirements = {},
                        !._extras_requirements = <<>>]
    /\ pc' = "get_info"
    /\ last' = Did(<<"reload">>, None, None)
    /\ out' = NoResult
    /\ proc' = [proc EXCEPT !.slot_stale = (proc._setup_distribution # <<>>)]
    /\ fs' = [fs EXCEPT !.written = FALSE]

Next ==
    \/ GetInfoParseSetupCfg
    \/ GetInfoRunPyproject
    \/ BuildWheel
    \/ BuildSdist
    \/ WheelMetadata
    \/ BuildProbe
    \/ BuildRunSetup
    \/ EndBuild
    \/ AfterBuild
    \/ FinalRunSetup
    \/ FinalLeave
    \/ Unwind
    \/ FinalExcept
    \/ FinalProbe
    \/ Return
    \/ Reload

Spec == Init /\ [][Next]_vars

-----------------------------------------------------------------------------
(* The extractors on their own.  In ExtractSpec fs is the artifact handed   *)
(* to one extractor, pc names the extractor that ran ("input" before), and  *)
(* out is what it returned or that it raised.                               *)

\* get_extra_name_from_marker on a marker with _markers: the value of the
\* first top-level tuple that compares `extra`, or None
get_extra_name_from_marker(marker) ==
    LET hits == SelectSeq(marker, LAMBDA elem :
                    elem.kind = "tuple" /\ elem.variable = "extra")
    IN  IF hits = <<>> THEN None ELSE hits[1].value

\* utils.strip_extras_markers_from_requirement: the comparisons of `extra`
\* leave the marker, at top level and inside groups, with the "and" / "or"
\* they leave dangling; a marker left empty is None
strip_extras_markers_from_requirement(req) ==
    LET no_extra(elem) == ~(elem.kind = "tuple" /\ elem.variable = "extra")
        inner(elem) ==
            IF elem.kind = "list"
            THEN MarkerList(SelectSeq(elem.items, no_extra)) ELSE elem
        opened == [i \in DOMAIN req.marker |-> inner(req.marker[i])]
        kept == SelectSeq(opened, LAMBDA elem :
                    no_extra(elem)
                    /\ ~(elem.kind = "list" /\ elem.items = <<>>))
        head == IF kept # <<>> /\ kept[1].kind = "str" THEN Tail(kept) ELSE kept
        body == IF head # <<>> /\ head[Len(head)].kind = "str"
                THEN SubSeq(head, 1, Len(head) - 1) ELSE head
    IN  [req EXCEPT !.marker = body]

\* lines 436-448 over run_requires[i..]: acc is [requires, extras]
RECURSIVE wheel_run_requires(_, _, _)
wheel_run_requires(run_requires, i, acc) ==
    IF i > Len(run_requires) THEN acc
    ELSE LET parsed_req == init_requirement(run_requires[i])
             parsed_marker == marker_of(parsed_req)
             extra == get_extra_name_from_marker(parsed_marker)
             filed == strip_extras_markers_from_requirement(parsed_req)
             next ==
                 IF parsed_marker # <<>> /\ extra # None
                 THEN [acc EXCEPT !.extras =
                          (extra :> Append(Get(acc.extras, extra, <<>>), filed))
                              @@ @]
                 ELSE [acc EXCEPT !.requires = Append(@, parsed_req)]
         IN  wheel_run_requires(run_requires, i + 1, next)

\* get_metadata_from_wheel on a wheel that opens: metadata is its METADATA
get_metadata_from_wheel(metadata) ==
    LET extras_keys == metadata.extras
        by_extra == [k \in Items(extras_keys) |-> <<>>]
        filled == wheel_run_requires(metadata.run_requires, 1,
                      [requires |-> <<>>, extras |-> by_extra])
    IN  [name |-> metadata.name, version |-> metadata.version,
         requires |-> filled.requires, extras |-> filled.extras]

\* the Requires-Dist lines a wheel may carry
RunRequiresLines ==
    {"foo", "bar; extra == 'docs'",
     "baz; python_version < '3' and extra == 'docs'",
     "qux; (python_version < '3') and (extra == 'docs')",
     "quux; python_version < '3'"}

MaxRunRequires == 2

\* the METADATA of the wheels handed to the extractor
WheelInputs ==
    {[kind |-> "wheel",
      metadata |-> [name |-> "pkgA", version |-> "1.0", extras |-> keys,
                    run_requires |-> lines]] :
        keys \in {<<>>, <<"docs">>},
        lines \in UNION {[1..n -> RunRequiresLines] : n \in 0..MaxRunRequires}}

\* the variables of the resolution model stay as they are
ExtractFrame ==
    /\ si = <<>>
    /\ proc = <<>>
    /\ last = Skipped
    /\ reloads = 0

GetMetadataFromWheel ==
    /\ pc = "input"
    /\ fs.kind = "wheel"
    /\ pc' = "get_metadata_from_wheel"
    /\ out' = Returned(get_metadata_from_wheel(fs.metadata))
    /\ UNCHANGED <<si, fs, proc, last, reloads>>

\* k.startswith(":python_version") on the keys of the model
is_python_version_key(k) == k = ":python_version<'3'"

\* k.replace(":", "; ") on the python_version keys of the model
key_as_marker(k) == CASE k = ":python_version<'3'" -> "; python_version<'3'"

\* lines 465-480 over the keys of dep_map from the i-th on; dep_map is the
\* sequence of its (key, requirements) items, acc is [deps, extras]
RECURSIVE dist_dep_map(_, _, _)
dist_dep_map(dep_map, i, acc) ==
    IF i > Len(dep_map) THEN acc
    ELSE LET k == dep_map[i][1]
             found == dep_map[i][2]
             marker == IF is_python_version_key(k) THEN key_as_marker(k) ELSE ""
             extra == IF is_python_version_key(k) THEN None ELSE k
             _deps == ensure_reqs([j \in DOMAIN found |->
                                      Text(str_req(found[j]) \o marker)])
             next ==
                 IF k = None THEN [acc EXCEPT !.deps = @ \o found]
                 ELSE IF ~Falsy(extra)
                      THEN [acc EXCEPT !.extras = (extra :> _deps) @@ @]
                      ELSE [acc EXCEPT !.deps = @ \o _deps]
         IN  dist_dep_map(dep_map, i + 1, next)

\* get_metadata_from_dist; dist.requires is <<>> when dist.requires() raises,
\* else <<the list>>, and dist.dep_map likewise for dist._build_dep_map()
get_metadata_from_dist(dist) ==
    LET requires_list == IF dist.requires = <<>> THEN <<>> ELSE dist.requires[1]
        dep_map == IF dist.dep_map = <<>> THEN <<>> ELSE dist.dep_map[1]
        filled == dist_dep_map(dep_map, 1, [deps |-> <<>>, extras |-> <<>>])
    IN  [name |-> dist.project_name, version |-> dist.version,
         requires |-> requires_list, extras |-> filled.extras]

\* the dependency maps of the distributions handed to the extractor: the
\* unconditional key None, a python_version conditional key, an extra
DepMapItems ==
    <<<<None, <<foo1>>>>, <<":python_version<'3'", <<barAny, fooAny>>>>,
      <<"docs", <<fooAny>>>>>>

\* the items of DepMapItems at the positions in keep, in order
RECURSIVE dep_map_of(_, _)
dep_map_of(keep, i) ==
    IF i > Len(DepMapItems) THEN <<>>
    ELSE (IF i \in keep THEN <<DepMapItems[i]>> ELSE <<>>)
             \o dep_map_of(keep, i + 1)

\* Distribution.requires() with no extras: what the map files under None and,
\* when the condition holds in the running interpreter, what it files under
\* the python_version key, as the requirement objects of the map
RECURSIVE dist_requires(_, _, _)
dist_requires(dep_map, holds, i) ==
    IF i > Len(dep_map) THEN <<>>
    ELSE (IF \/ dep_map[i][1] = None
             \/ holds /\ is_python_version_key(dep_map[i][1])
          THEN dep_map[i][2] ELSE <<>>)
             \o dist_requires(dep_map, holds, i + 1)

DistInputs ==
    {[kind |-> "dist", project_name |-> "pkgA", version |-> "1.0",
      requires |-> IF requires_raises THEN <<>>
                   ELSE <<dist_requires(dep_map_of(keep, 1), holds, 1)>>,
      dep_map |-> IF map_raises THEN <<>> ELSE <<dep_map_of(keep, 1)>>] :
        keep \in SUBSET (1..3), holds \in BOOLEAN,
        requires_raises \in BOOLEAN, map_raises \in BOOLEAN}

GetMetadataFromDist ==
    /\ pc = "input"
    /\ fs.kind = "dist"
    /\ pc' = "get_metadata_from_dist"
    /\ out' = Returned(get_metadata_from_dist(fs))
    /\ UNCHANGED <<si, fs, proc, last, reloads>>

\* os.path.splitext on the entry names of the model: <<root, ext>>
splitext(name) ==
    CASE name = "pkga.egg-info" -> <<"pkga", ".egg-info">>
      [] name = "PkgA-1.0.dist-info" -> <<"PkgA-1.0", ".dist-info">>
      [] name = "PkgA.dist-info" -> <<"PkgA", ".dist-info">>
      [] name = "other.dist-info" -> <<"other", ".dist-info">>
      [] name = "setup.py" -> <<"setup", ".py">>
      [] name = "src" -> <<"src", "">>

\* str.endswith on the names and extensions of the model
endswith(chars, suffix) ==
    CASE suffix = "egg-info" -> chars \in {"pkga.egg-info", ".egg-info"}
      [] suffix = "dist-info" ->
            chars \in {"PkgA-1.0.dist-info", "PkgA.dist-info",
                       "other.dist-info", ".dist-info"}

\* str.lower on the roots of the model
lower(chars) ==
    CASE chars = "PkgA" -> "pkga"
      [] chars = "PkgA-1.0" -> "pkga-1.0"
      [] OTHER -> chars

\* utils.get_name_variants: the case-folded name with hyphen, underscore and
\* dot interchanged; the names of the model have none of the three
get_name_variants(pkg_name) == {lower(pkg_name)}

\* the concatenation of the sequences of a sequence
RECURSIVE chain(_)
chain(seqs) == IF seqs = <<>> THEN <<>> ELSE Head(seqs) \o chain(Tail(seqs))

\* iter_metadata over the entries scandir gives for a directory, in its order;
\* an entry is [name, is_dir, parent, dist, sub], sub the entries inside it
RECURSIVE iter_metadata(_, _, _)
iter_metadata(entries, pkg_name, metadata_type) ==
    LET ext(entry) == splitext(entry.name)[2]
        entry_name(entry) == splitext(entry.name)[1]
        yielded(entry) ==
            /\ entry.is_dir
            /\ endswith(ext(entry), metadata_type)
            /\ \/ pkg_name = None
               \/ lower(entry_name(entry)) \in get_name_variants(pkg_name)
        non_matching(entry) ==
            /\ entry.is_dir
            /\ ~endswith(ext(entry), metadata_type)
            /\ ~endswith(entry.name, metadata_type)
        non_matching_dirs == SelectSeq(entries, non_matching)
    IN  SelectSeq(entries, yielded)
            \o chain([i \in DOMAIN non_matching_dirs |->
                         iter_metadata(non_matching_dirs[i].sub, pkg_name,
                                       metadata_type)])

\* next(iter(find_egginfo(path, pkg_name)), None): <<>> is None
find_egginfo(entries, pkg_name) ==
    LET egg_dirs == iter_metadata(entries, pkg_name, "egg-info")
    IN  IF egg_dirs = <<>> THEN <<>> ELSE <<egg_dirs[1]>>

\* next(iter(find_distinfo(path, pkg_name)), None): <<>> is None
find_distinfo(entries, pkg_name) ==
    LET dist_dirs == iter_metadata(entries, pkg_name, "dist-info")
    IN  IF dist_dirs = <<>> THEN <<>> ELSE <<dist_dirs[1]>>

\* all the entries of a tree
RECURSIVE walk(_)
walk(entries) ==
    entries \o chain([i \in DOMAIN entries |-> walk(entries[i].sub)])

\* next(iter(pkg_resources.find_distributions(base_dir)), None): the
\* distribution of one of the metadata directories directly in base_dir,
\* whichever pkg_resources comes to first
find_distributions(entries, base_dir) ==
    LET here == {e \in Items(walk(entries)) :
                    /\ e.parent = base_dir /\ e.is_dir /\ e.dist # <<>>}
    IN  IF here = {} THEN {<<>>} ELSE {e.dist : e \in here}

\* get_metadata: the set of what it may return, <<>> being the empty mapping
get_metadata(entries, pkg_name, metadata_type) ==
    LET wheel_allowed == metadata_type \in {"wheel", None}
        egg_allowed == metadata_type \in {"egg", None}
        egg_dir == find_egginfo(entries, pkg_name)
        dist_dir == find_distinfo(entries, pkg_name)
        metadata_dirs ==
            (IF dist_dir # <<>> /\ wheel_allowed THEN dist_dir ELSE <<>>)
                \o (IF egg_dir # <<>> /\ egg_allowed THEN egg_dir ELSE <<>>)
    IN  IF metadata_dirs = <<>> THEN {<<>>}
        ELSE LET matched_dir == metadata_dirs[1]
                 base_dir == matched_dir.parent
                 distinfo_dists ==
                     IF wheel_allowed /\ dist_dir # <<>>
                     THEN find_distributions(entries, base_dir) ELSE {<<>>}
                 egg_dist ==
                     IF egg_allowed /\ egg_dir # <<>>
                     THEN matched_dir.dist ELSE <<>>
             IN  {LET dist == IF distinfo_dist # <<>> THEN distinfo_dist
                              ELSE egg_dist
                  IN  IF dist # <<>> THEN get_metadata_from_dist(dist[1])
                      ELSE <<>> : distinfo_dist \in distinfo_dists}

\* what pkg_resources reads from a metadata directory of the model
dist_in(name) ==
    LET reads(project_name, found) ==
            <<[kind |-> "dist", project_name |-> project_name,
               version |-> "1.0", requires |-> <<found>>,
               dep_map |-> <<<<<<None, found>>>>>>]>>
    IN  CASE name = "pkga.egg-info" -> reads("PkgA", <<fooAny>>)
          [] name \in {"PkgA-1.0.dist-info", "PkgA.dist-info"} ->
                reads("PkgA", <<foo1>>)
          [] name = "other.dist-info" -> reads("other", <<barAny>>)
          [] OTHER -> <<>>

Entry(name, parent, sub) ==
    [name |-> name, is_dir |-> name # "setup.py", parent |-> parent,
     dist |-> dist_in(name), sub |-> sub]

\* the names scandir may give, in its order
EntryNames ==
    <<"setup.py", "pkga.egg-info", "PkgA-1.0.dist-info", "PkgA.dist-info",
      "other.dist-info">>

\* the entries of EntryNames at the positions in keep, in order
RECURSIVE entries_of(_, _, _)
entries_of(keep, parent, i) ==
    IF i > Len(EntryNames) THEN <<>>
    ELSE (IF i \in keep THEN <<Entry(EntryNames[i], parent, <<>>)>> ELSE <<>>)
             \o entries_of(keep, parent, i + 1)

\* the searched trees: a directory with some of the entries and, in some,
\* a plain subdirectory src holding a metadata directory
TreeInputs ==
    {[kind |-> "tree", pkg_name |-> pkg_name, metadata_type |-> metadata_type,
      entries |-> entries_of(keep, ".", 1)
                      \o (IF inside = {} THEN <<>>
                          ELSE <<Entry("src", ".",
                                       entries_of(inside, "src", 1))>>)] :
        keep \in SUBSET (1..4), inside \in {{}, {2}, {4}, {5}},
        pkg_name \in {None, "PkgA"}, metadata_type \in {None, "wheel", "egg"}}

GetMetadata ==
    /\ pc = "input"
    /\ fs.kind = "tree"
    /\ pc' = "get_metadata"
    /\ \E rv \in get_metadata(fs.entries, fs.pkg_name, fs.metadata_type) :
           out' = Returned(rv)
    /\ UNCHANGED <<si, fs, proc, last, reloads>>

\* what may be on disk and importable when a setup.cfg is read
Worlds ==
    {[files |-> files, modules |-> modules] :
        files \in {<<>>, "VERSION" :> "2.0"},
        modules \in {<<>>, "pkg" :> <<>>,
                     "pkg" :> ("__version__" :> Text("3.0")
                                  @@ "version_info" :> [tuple |-> <<1, 0>>])}}

\* the scalar entries handed to parse_special_directives
SetupEntries ==
    {"1.0", "file: VERSION", "attr: pkg.__version__",
     "attr: pkg.version_info", "attr: pkg"}

DirectiveInputs ==
    {[kind |-> "directive", setup_entry |-> setup_entry, world |-> world] :
        setup_entry \in SetupEntries, world \in Worlds}

\* the setup.cfg files handed to parse_setup_cfg: each option declared or not,
\* install_requires and the extras_require section also declared empty
CfgInputs ==
    {[kind |-> "setup.cfg", world |-> world,
      file |-> [name |-> name, version |-> version,
                python_requires |-> python_requires,
                install_requires |-> install_requires,
                build_requires |-> build_requires,
                extras_require |-> extras_require]] :
        world \in Worlds, name \in {None, "pkgA"},
        version \in {None} \cup SetupEntries,
        python_requires \in {None, ">=3.6"},
        install_requires \in {<<>>, << <<"">> >>, << <<"", "foo ", "bar">> >>},
        build_requires \in {<<>>, << <<"cy">> >>},
        extras_require \in
            {<<>>, << <<>> >>, << << <<"docs", <<"", "#dev">>>> >> >>,
             << << <<"docs", <<"", "#dev", "foo>=1.0">>>> >> >>}}

ParseSpecialDirectives ==
    /\ pc = "input"
    /\ fs.kind = "directive"
    /\ pc' = "parse_special_directives"
    /\ LET call == parse_special_directives(fs.setup_entry, fs.world)
       IN  out' = IF call.raised THEN Raised ELSE Returned(call.rv)
    /\ UNCHANGED <<si, fs, proc, last, reloads>>

ParseSetupCfg ==
    /\ pc = "input"
    /\ fs.kind = "setup.cfg"
    /\ pc' = "parse_setup_cfg"
    /\ out' = IF parse_setup_cfg_raises(fs.file, fs.world) THEN Raised
              ELSE Returned(parse_setup_cfg(fs.file, fs.world))
    /\ UNCHANGED <<si, fs, proc, last, reloads>>

\* set.add: the set afterwards, and what the call returns, which is None
set_add(items, x) == [items |-> items \cup {x}, returns |-> <<>>]

\* frozenset(iterable): [raised, rv]; None (<<>>) is not iterable
frozenset(iterable) ==
    IF iterable = <<>> THEN [raised |-> TRUE, rv |-> {}]
    ELSE [raised |-> FALSE, rv |-> iterable[1]]

\* Extra.add: [raised, rv]
Extra_add(self, req) ==
    IF req \notin self.requirements
    THEN LET made == frozenset(set_add(self.requirements, req).returns)
         IN  IF made.raised THEN [raised |-> TRUE, rv |-> self]
             ELSE [raised |-> FALSE,
                   rv |-> [self EXCEPT !.requirements = made.rv]]
    ELSE [raised |-> FALSE, rv |-> self]

\* the Extra objects and the requirement records handed to Extra.add
ExtraInputs ==
    {[kind |-> "extra", self |-> [name |-> name, requirements |-> members],
      req |-> req] :
        name \in {None, "docs"},
        members \in SUBSET {from_req(r) : r \in ReqObjs},
        req \in {from_req(r) : r \in ReqObjs}}

ExtraAdd ==
    /\ pc = "input"
    /\ fs.kind = "extra"
    /\ pc' = "Extra.add"
    /\ LET call == Extra_add(fs.self, fs.req)
       IN  out' = IF call.raised THEN Raised ELSE Returned(call.rv)
    /\ UNCHANGED <<si, fs, proc, last, reloads>>

\* utils.split_vcs_method_from_uri on the link urls of the model: the uri
\* without its vcs method
split_vcs_method_from_uri(url) ==
    CASE url = "git+file:///src/repo@main" -> "file:///src/repo@main"
      [] OTHER -> url

\* urlparse(uri).scheme
uri_scheme(uri) ==
    CASE uri \in {"file:///src/pkg", "file:/src/pkg", "file:///src/repo@main",
                  "file:///src/repo"} -> "file"
      [] uri = "git+file:///src/repo@main" -> "git+file"
      [] uri = "https://host/pkg.tar.gz" -> "https"

\* lines 964-970: a file uri loses what follows an @ in its path
without_ref(uri) ==
    IF uri_scheme(uri) = "file"
    THEN CASE uri = "file:///src/repo@main" -> "file:///src/repo"
           [] uri = "file:/src/pkg" -> "file:///src/pkg"
           [] OTHER -> uri
    ELSE uri

\* pip_shims.shims.url_to_path on the file uris of the model
url_to_path(uri) ==
    CASE uri = "file:///src/pkg" -> "/src/pkg"
      [] uri = "file:///src/repo" -> "/src/repo"

\* pip_shims.shims.is_file_url(link): the url starts with file:
is_file_url(link) == link.url \in {"file:///src/pkg", "file:/src/pkg"}

\* lines 963-975: path is <<>> (None) or <<the local path of the link>>
ireq_path(link) ==
    LET uri == without_ref(split_vcs_method_from_uri(link.url))
    IN  IF uri_scheme(link.url) = "file" \/ uri_scheme(uri) = "file"
        THEN <<url_to_path(uri)>> ELSE <<>>

\* from_ireq with the directory test made after the link is unpacked
from_ireq_testing_after_unpack(ireq, isdir) ==
    LET outcome(events, raised, download_dir, only_download) ==
            [events |-> events, raised |-> raised,
             download_dir |-> download_dir, only_download |-> only_download]
    IN  IF ireq.link = <<>> \/ ireq.link[1].is_wheel
        THEN outcome(<<>>, "", <<>>, <<>>)
        ELSE LET link == ireq.link[1]
                 path == ireq_path(link)
                 prepared == <<"_prepare_wheel_building_kwargs">>
                 sourced == prepared \o <<"build_location", "populate_link">>
             IN  IF ~(ireq.editable /\ is_file_url(link) /\ ~link.is_artifact)
                 THEN outcome(sourced \o <<"unpack_url", "create">>, "",
                              IF ireq.is_wheel THEN <<"wheel_download_dir">>
                              ELSE <<"download_dir">>,
                              <<ireq.is_wheel>>)
                 ELSE IF path # <<>> /\ isdir
                 THEN outcome(sourced \o <<"unpack_url">>, "RequirementError",
                              <<>>, <<>>)
                 ELSE outcome(sourced, "UnboundLocalError", <<>>, <<>>)

\* from_ireq up to its return: what it did, in order (events), the exception
\* it raised ("" for none), and download_dir / only_download as they stand
\* when unpack_url is called, <<>> for a local that was never assigned
from_ireq(ireq, isdir) ==
    LET outcome(events, raised, download_dir, only_download) ==
            [events |-> events, raised |-> raised,
             download_dir |-> download_dir, only_download |-> only_download]
    IN  IF ireq.link = <<>> \/ ireq.link[1].is_wheel
        THEN outcome(<<>>, "", <<>>, <<>>)
        ELSE LET link == ireq.link[1]
                 path == ireq_path(link)
                 prepared == <<"_prepare_wheel_building_kwargs">>
                 sourced == prepared \o <<"build_location", "populate_link">>
             IN  IF ~(ireq.editable /\ is_file_url(link) /\ ~link.is_artifact)
                 THEN outcome(sourced \o <<"unpack_url", "create">>, "",
                              IF ireq.is_wheel THEN <<"wheel_download_dir">>
                              ELSE <<"download_dir">>,
                              <<ireq.is_wheel>>)
                 ELSE IF path # <<>> /\ isdir
                 THEN outcome(prepared, "RequirementError", <<>>, <<>>)
                 ELSE outcome(sourced, "UnboundLocalError", <<>>, <<>>)

\* the links of the originating requirements
LinkUrls ==
    {"file:///src/pkg", "file:/src/pkg", "git+file:///src/repo@main",
     "https://host/pkg.tar.gz"}

\* the originating requirements handed to from_ireq, and whether the local
\* path of the link is a directory
IreqInputs ==
    {[kind |-> "ireq", isdir |-> isdir,
      ireq |-> [link |-> link, editable |-> editable, is_wheel |-> wheel]] :
        isdir \in BOOLEAN, editable \in BOOLEAN, wheel \in BOOLEAN,
        link \in {<<>>} \cup
                 {<<[url |-> url, is_wheel |-> w, is_artifact |-> a]>> :
                     url \in LinkUrls, w \in BOOLEAN, a \in BOOLEAN}}

FromIreq ==
    /\ pc = "input"
    /\ fs.kind = "ireq"
    /\ pc' = "from_ireq"
    /\ LET call == from_ireq(fs.ireq, fs.isdir)
       IN  out' = IF call.raised # "" THEN [Raised EXCEPT !.value = call]
                  ELSE Returned(call)
    /\ UNCHANGED <<si, fs, proc, last, reloads>>

\* the setup.cfg files of packages resolved from their configuration alone
PackageCfgFiles ==
    CfgFiles \cup
    {[name |-> None, version |-> None, python_requires |-> None,
      install_requires |-> << <<"", "foo", "bar>=1.0">> >>,
      build_requires |-> <<>>,
      extras_require |-> << << <<"test", <<"pytest">>>> >> >>]}

\* packages whose setup.cfg is the only source that contributes, with the
\* originating requirement: None, or one requesting an extra
PackageInputs ==
    {[kind |-> "package", file |-> file, ireq |-> ireq] :
        file \in PackageCfgFiles,
        ireq \in {<<>>, <<[extras |-> <<"docs">>]>>, <<[extras |-> <<"test">>]>>}}

\* SetupInfo.parse_setup_cfg on a new SetupInfo, then the requires and extras
\* properties read from it
SetupInfoParseSetupCfg ==
    /\ pc = "input"
    /\ fs.kind = "package"
    /\ pc' = "SetupInfo.parse_setup_cfg"
    /\ \E s \in SetupInfo_parse_setup_cfg(NewSetupInfo(fs.ireq), fs.file) :
           \E requires_ \in requires(s), extras_ \in extras(s) :
               out' = Returned([requires |-> requires_, extras |-> extras_])
    /\ UNCHANGED <<si, fs, proc, last, reloads>>

\* run_setup calls on a package with a setup.py: the process as the caller
\* left it and what the environment does during the call
RunSetupInputs ==
    {[kind |-> "run_setup", env |-> env, py_lt_35 |-> lt] :
        env \in RunSetupEnvs(NewSetupInfo(<<>>),
                             [setup_cfg |-> FALSE, setup_py |-> TRUE,
                              pyproject |-> FALSE, written |-> FALSE]),
        lt \in BOOLEAN}

\* SetupInfo.run_setup on a new SetupInfo: what ran, the subprocess calls made
\* and whether the call raised
RunSetup ==
    /\ pc = "input"
    /\ fs.kind = "run_setup"
    /\ pc' = "run_setup"
    /\ \E r \in run_setup(NewSetupInfo(<<>>),
                          [cwd |-> HomeCwd, cd_saved |-> <<>>,
                           argv |-> <<"prog", "-v">>, Log_log |-> 0,
                           _setup_distribution |-> <<>>, slot_stale |-> FALSE,
                           _setup_stop_after |-> None,
                           py_lt_35 |-> fs.py_lt_35], fs.env) :
           out' = [status |-> IF r.raised THEN "raised" ELSE "returned",
                   value |-> [events |-> r.did.events,
                              subprocess |-> r.subprocess]]
    /\ UNCHANGED <<si, fs, proc, last, reloads>>

ExtractInputs ==
    WheelInputs \cup DistInputs \cup TreeInputs \cup DirectiveInputs
        \cup CfgInputs \cup ExtraInputs \cup IreqInputs
        \cup PackageInputs \cup RunSetupInputs

ExtractInit ==
    /\ fs \in ExtractInputs
    /\ pc = "input"
    /\ out = NoResult
    /\ ExtractFrame

ExtractNext ==
    \/ GetMetadataFromWheel
    \/ GetMetadataFromDist
    \/ GetMetadata
    \/ ParseSpecialDirectives
    \/ ParseSetupCfg
    \/ ExtraAdd
    \/ FromIreq
    \/ SetupInfoParseSetupCfg
    \/ RunSetup

ExtractSpec == ExtractInit /\ [][ExtractNext]_vars

-----------------------------------------------------------------------------
(* Properties of the recorded identity and dependency sets.                 *)

\* C1: once the SetupInfo has a non-empty name, no later step changes it.
C1_NameFirstWriterWins ==
    [][~Falsy(si.name) => si'.name = si.name]_vars

\* C2: once the SetupInfo has a non-empty version, no later step changes it,
\* whichever source the step merges.
C2_VersionFirstWriterWins ==
    [][~Falsy(si.version) => si'.version = si.version]_vars

\* a source carrying another version was merged and the first version stayed
C2_Witness ==
    /\ ~Falsy(si.version)
    /\ ~Falsy(last.version)
    /\ last.version # si.version
    /\ \E e \in Items(last.events) : e \in {"populate_metadata", "dist"}

\* C3: every step other than a reload leaves each element of the base
\* requirement set in the set.
C3_RequirementsOnlyGrow ==
    [][("reload" \notin Items(last'.events))
          => si._requirements \subseteq si'._requirements]_vars

\* the partial-record merger added to a set the configuration extractor filled
C3_Witness ==
    /\ "populate_metadata" \in Items(last.events)
    /\ from_req(fooAny) \in si._requirements
    /\ from_req(foo1) \in si._requirements

\* C4: for every partial record m, merging m a second time leaves the base
\* requirement set, and the mapping read from it, as the first merge left them.
C4_PopulateIdempotent ==
    \A m \in MetadataRecords :
        LET once == populate_metadata(si, m)
            twice == populate_metadata(once, m)
        IN  /\ twice._requirements = once._requirements
            /\ requires(twice) = requires(once)

\* the record merged last is merged again, with dependencies and a requested
\* extra in it
C4_Witness ==
    /\ last.repeat
    /\ si.metadata[1].requires # <<>>
    /\ ireq_extras(si) # <<>>
    /\ \E r \in si._requirements : r.name = "bar"

\* C5: after the configuration stage and after the project-descriptor stage
\* the build-time dependencies hold what they held before together with what
\* the stage's source declared.
C5_BuildRequiresUnion ==
    [][(\E e \in Items(last'.events) : e \in {"parse_setup_cfg", "run_pyproject"})
          => /\ si.build_requires \subseteq si'.build_requires
             /\ last'.declared \subseteq si'.build_requires]_vars

\* C6: every dependency of every declaration of an extra section, whichever
\* the source, is in the mapping the extras accessor returns for that section.
C6_ExtrasAccumulate ==
    \A extras_ \in extras(si) :
    \A i \in DOMAIN si._extras_requirements :
        LET section == si._extras_requirements[i][1]
            declared == si._extras_requirements[i][2]
        IN  /\ section \in DOMAIN extras_
            /\ \A j \in DOMAIN declared :
                   declared[j].requirement \in Items(extras_[section])

\* C7: get_info never ends by raising.
C7_GetInfoNeverRaises ==
    pc # "raised" /\ out.status # "raised"

\* C8: inside build the wheel is attempted first; the source distribution is
\* attempted exactly when the wheel attempt raised; neither attempt's
\* exception leaves build, and when both raised the installed-metadata probe
\* is what runs next; the legacy script runs in build only right after that
\* probe and only while the metadata or the name is unset.
C8_BuildOrder ==
    [][/\ (pc = "build_wheel")
             => \E e \in Items(last'.events) : e \in {"build_wheel", "build_wheel_raised"}
       /\ (\E e \in Items(last'.events) : e \in {"build_sdist", "build_sdist_raised"})
             <=> (last.events = <<"build_wheel_raised">>)
       /\ (\E e \in Items(last'.events) : e \in {"build_wheel_raised", "build_sdist_raised"})
             => pc' \notin {"unwind", "raised"}
       /\ (last.events = <<"build_sdist_raised">>)
             => \E e \in Items(last'.events) : e \in {"probe", "probe_raised"}
       /\ (pc = "build_run_setup" /\ "setup.py" \in Items(last'.events))
             => /\ incomplete(si)
                /\ "probe" \in Items(last.events)
      ]_vars

\* both attempts raised and the probe is what build does next
C8_Witness ==
    /\ last.events = <<"build_sdist_raised">>
    /\ pc = "probe"
    /\ ~Falsy(si.name)

\* C9: when reading the built wheel's metadata fails, build goes on to the
\* installed-metadata probe.
C9_WheelMetadataFailureSwallowed ==
    ("wheel_metadata_raised" \in Items(last.events)) => pc = "probe"

\* C10: a run of the legacy script leaves the working directory and the
\* argument vector as they were before it, whether or not the script raised.
C10_RunSetupRestoresProcess ==
    [][("setup.py" \in Items(last'.events))
          => /\ proc'.cwd = proc.cwd
             /\ proc'.argv = proc.argv]_vars


\* C11: a run of the legacy script leaves distutils.log.Log._log the function
\* it was before the run, on normal return, early return and exception alike.
C11_LogFilterRestored ==
    [][("setup.py" \in Items(last'.events))
          => proc'.Log_log = proc.Log_log]_vars

\* C12: a reload empties the requirement set and the extras table, and the
\* pass after it fills them only from what it reads of the current contents:
\* no step after a reload adds to either from a distribution object that was
\* captured before the reload.
C12_ReloadRederives ==
    [][/\ ("reload" \in Items(last'.events))
             => si'._requirements = {} /\ si'._extras_requirements = <<>>
       /\ (reloads > 0 /\ "dist" \in Items(last'.events) /\ proc'.slot_stale)
             => /\ si'._requirements = si._requirements
                /\ si'._extras_requirements = si._extras_requirements]_vars

\* C13: a reload clears the identity fields: the pass after it starts with
\* name and version unknown.
C13_ReloadClearsIdentity ==
    ("reload" \in Items(last.events)) => si.name = None /\ si.version = None

\* the package directory came with no setup.cfg, setup.py or pyproject.toml
NoDeclaration ==
    /\ ~fs.setup_cfg
    /\ ~fs.setup_py
    /\ ~fs.pyproject \/ fs.written

\* C14: resolving a directory that holds no setup.py, no setup.cfg and no
\* pyproject.toml does not raise, and the mapping it returns has base_dir as
\* its only key.
C14_NoDeclarationOnlyBaseDir ==
    (NoDeclaration /\ reloads = 0)
        => /\ pc \notin {"unwind", "raised"}
           /\ pc = "done" => DOMAIN out.value = {"base_dir"}

-----------------------------------------------------------------------------
(* Properties of the extractors, under ExtractSpec.                         *)

\* a marker holds a comparison of `extra` with the name, at any depth
ComparesExtra(marker, name) ==
    \E i \in DOMAIN marker :
        \/ marker[i].kind = "tuple" /\ marker[i].variable = "extra"
           /\ marker[i].value = name
        \/ marker[i].kind = "list"
           /\ \E j \in DOMAIN marker[i].items :
                  /\ marker[i].items[j].variable = "extra"
                  /\ marker[i].items[j].value = name

\* C15: every Requires-Dist line of the wheel whose marker compares `extra`
\* with a name is absent from the returned requires list and is filed under
\* extras[name], with no comparison of `extra` left in its marker.
C15_ExtrasMarkerSplit ==
    (pc = "get_metadata_from_wheel" /\ out.status = "returned") =>
        \A i \in DOMAIN fs.metadata.run_requires :
            LET req == init_requirement(fs.metadata.run_requires[i])
            IN  ComparesExtra(marker_of(req), "docs") =>
                    /\ \A r \in Items(out.value.requires) : r.name # req.name
                    /\ "docs" \in DOMAIN out.value.extras
                    /\ \E r \in Items(out.value.extras["docs"]) :
                           /\ r.name = req.name
                           /\ ~ComparesExtra(marker_of(r), "docs")

\* C16: every requirement the dependency map files under a python_version
\* conditional key is in the returned requires list with that condition as its
\* marker, and in none of the returned extras.
C16_PythonVersionInRequires ==
    (pc = "get_metadata_from_dist" /\ fs.dep_map # <<>>) =>
        \A i \in DOMAIN fs.dep_map[1] :
            is_python_version_key(fs.dep_map[1][i][1]) =>
                \A req \in Items(fs.dep_map[1][i][2]) :
                    /\ \E r \in Items(out.value.requires) :
                           /\ r.name = req.name
                           /\ marker_of(r)
                                  = <<MarkerTuple("python_version", "3")>>
                    /\ \A e \in DOMAIN out.value.extras :
                           \A r \in Items(out.value.extras[e]) :
                               marker_of(r) = <<>>

\* the searched tree holds a metadata directory with one of the names
Holds(names) == \E e \in Items(walk(fs.entries)) : e.name \in names

\* C17: when the tree holds an egg-info directory and a dist-info directory of
\* the package, get_metadata with the package name as filter and no
\* metadata_type returns the metadata read from the dist-info directory.
C17_DistInfoPreferred ==
    (/\ pc = "get_metadata"
     /\ fs.pkg_name = "PkgA" /\ fs.metadata_type = None
     /\ Holds({"pkga.egg-info"})
     /\ Holds({"PkgA-1.0.dist-info", "PkgA.dist-info"}))
        => out.value = get_metadata_from_dist(dist_in("PkgA.dist-info")[1])

\* the entry is a file: or attr: directive that the world cannot resolve: the
\* file is missing, the module is not importable or lacks the attribute
Unresolvable(setup_entry, world) ==
    \/ /\ DirectiveOf(setup_entry) = "file"
       /\ directive_target(setup_entry) \notin DOMAIN world.files
    \/ /\ DirectiveOf(setup_entry) = "attr"
       /\ rpartition(directive_target(setup_entry)) # <<>>
       /\ LET at == rpartition(directive_target(setup_entry))
          IN  \/ at[1] \notin DOMAIN world.modules
              \/ at[2] \notin DOMAIN world.modules[at[1]]

\* C18: parse_special_directives on an unresolvable file: or attr: directive
\* raises, and so does parse_setup_cfg on a file whose version is one.
C18_UnresolvableDirectiveRaises ==
    /\ (pc = "parse_special_directives"
            /\ Unresolvable(fs.setup_entry, fs.world))
           => out.status = "raised"
    /\ (pc = "parse_setup_cfg" /\ fs.file.version # None
            /\ Unresolvable(fs.file.version, fs.world))
           => out.status = "raised"

\* the options and sections a setup.cfg declares, by the key they feed
DeclaredKeys(file) ==
    {k \in {"name", "version", "python_requires"} : file[k] # None}
        \cup {k \in {"install_requires", "build_requires", "extras_require"} :
                 file[k] # <<>>}

\* C19 as stated: the record returned by parse_setup_cfg has a key only if
\* the file declares its option or section.
C19_OnlyDeclaredKeys ==
    (pc = "parse_setup_cfg" /\ out.status = "returned")
        => DOMAIN out.value \subseteq DeclaredKeys(fs.file)

\* C19 amended: name, version, python_requires and build_requires are keys of
\* the returned record only if the file declares them; install_requires and
\* extras_require are always keys, and empty when the file declares none.
C19_OptionalKeysOnlyDeclared ==
    (pc = "parse_setup_cfg" /\ out.status = "returned") =>
        /\ DOMAIN out.value \subseteq
               DeclaredKeys(fs.file) \cup {"install_requires", "extras_require"}
        /\ {"install_requires", "extras_require"} \subseteq DOMAIN out.value
        /\ fs.file.install_requires = <<>> => out.value.install_requires = {}
        /\ fs.file.extras_require = <<>> => out.value.extras_require = <<>>

\* a file that declares no name, no requirements and no extras was parsed
C19_Witness ==
    /\ pc = "parse_setup_cfg" /\ out.status = "returned"
    /\ DeclaredKeys(fs.file) = {"version"}
    /\ out.value.install_requires = {}

\* C20: Extra.add of a record that is no member returns an Extra of the same
\* name whose requirements are those of the receiver and the record; add of a
\* member returns an Extra equal to the receiver.
C20_ExtraAddCopyOnWrite ==
    (pc = "Extra.add") =>
        /\ out.status = "returned"
        /\ out.value.name = fs.self.name
        /\ out.value.requirements = fs.self.requirements \cup {fs.req}

\* the requirement is editable and its link a non-artifact file url
EditableLocal ==
    /\ fs.ireq.link # <<>>
    /\ ~fs.ireq.link[1].is_wheel
    /\ fs.ireq.editable
    /\ is_file_url(fs.ireq.link[1])
    /\ ~fs.ireq.link[1].is_artifact

\* C21: for an editable requirement whose link is a non-artifact file url of
\* an existing directory, from_ireq raises RequirementError, and it has
\* neither unpacked the link nor created a SetupInfo by then.
C21_DirectoryLinkRaises ==
    (pc = "from_ireq" /\ EditableLocal /\ fs.isdir) =>
        /\ out.status = "raised"
        /\ out.value.raised = "RequirementError"
        /\ ~\E e \in Items(out.value.events) : e \in {"unpack_url", "create"}

\* from_ireq ran on an editable file url of a directory, written file:/...
C21_Witness ==
    /\ pc = "from_ireq" /\ EditableLocal /\ fs.isdir
    /\ fs.ireq.link[1].url = "file:/src/pkg"
    /\ out.status = "raised"

\* C30: for a requirement with a non-wheel link from_ireq either raises
\* RequirementError or calls unpack_url with download_dir and only_download
\* both assigned.
C30_UnpackArgumentsAssigned ==
    (pc = "from_ireq" /\ fs.ireq.link # <<>> /\ ~fs.ireq.link[1].is_wheel) =>
        \/ out.value.raised = "RequirementError"
        \/ /\ out.status = "returned"
           /\ "unpack_url" \in Items(out.value.events)
           /\ out.value.download_dir # <<>>
           /\ out.value.only_download # <<>>

-----------------------------------------------------------------------------
(* Properties of the resolution, under Spec, continued.                     *)

\* C22: the record a pass returns is fixed by the aggregate the stages left:
\* whichever order the sets are iterated in, requires and extras read the
\* same, so a second resolution with the same stage results returns the same.
C22_DeterministicOutput ==
    [][(pc = "return" /\ pc' = "done") =>
          \A requires_ \in requires(si), extras_ \in extras(si) :
              out'.value = as_dict(si, requires_, extras_)]_vars

C29_RequiresLosesNoRecord ==
    \A requires_ \in requires(si) :
        Cardinality(DOMAIN requires_) = Cardinality(si._requirements)

\* C26: a run of run_setup whose own execution stored no distribution object
\* merges nothing from an object an earlier run left in _setup_distribution:
\* when the object in the slot after the run dates from before the last
\* reload, the run did not take the distribution branch.
C26_NoStaleDistribution ==
    [][("setup.py" \in Items(last'.events) /\ proc'.slot_stale)
          => /\ "dist" \notin Items(last'.events)
             /\ si'._requirements = si._requirements \/
                    "populate_metadata" \in Items(last'.events)]_vars

\* C27: within one get_info pass the legacy script is executed at most once:
\* when the stage of lines 910-912 executes it, the slot holds no distribution
\* object that an execution of the same pass stored.
C27_ScriptOncePerPass ==
    [][(pc = "final_run_setup" /\ "setup.py" \in Items(last'.events))
          => (proc._setup_distribution = <<>> \/ proc.slot_stale)]_vars

\* C28: no step of the resolution creates or removes pyproject.toml, setup.py
\* or setup.cfg.
C28_DeclarationFilesKept ==
    [][/\ fs'.pyproject = fs.pyproject
       /\ fs'.setup_py = fs.setup_py
       /\ fs'.setup_cfg = fs.setup_cfg]_vars

-----------------------------------------------------------------------------
(* Properties of the extractors, under ExtractSpec, continued.              *)

\* the setup.cfg declares install_requires foo and bar>=1.0 and the extra
\* test = pytest
DeclaresFooBarTest ==
    /\ fs.file.install_requires = << <<"", "foo", "bar>=1.0">> >>
    /\ fs.file.extras_require = << << <<"test", <<"pytest">>>> >> >>

\* C24: for the package whose setup.cfg declares install_requires foo and
\* bar>=1.0 and the extra test = pytest, requires has exactly the keys foo and
\* bar, bar with the specifier >=1.0, and extras is {test: [pytest]}, whatever
\* the originating requirement requests.
C24_ConfigOnlyRecord ==
    (pc = "SetupInfo.parse_setup_cfg" /\ DeclaresFooBarTest) =>
        /\ DOMAIN out.value.requires = {"foo", "bar"}
        /\ out.value.requires["bar"].spec = ">=1.0"
        /\ DOMAIN out.value.extras = {"test"}
        /\ Len(out.value.extras["test"]) = 1
        /\ out.value.extras["test"][1].name = "pytest"

\* the originating requirement requests the extra test
RequestsTest == fs.ireq # <<>> /\ "test" \in Items(fs.ireq[1].extras)

\* C24, amended: for that package, requires has the keys foo and bar, bar with
\* the specifier >=1.0, and extras is {test: [pytest]}; requires has the key
\* pytest as well exactly when the originating requirement requests the extra
\* test.
C24_ConfigOnlyRecordWithRequested ==
    (pc = "SetupInfo.parse_setup_cfg" /\ DeclaresFooBarTest) =>
        /\ DOMAIN out.value.requires =
               {"foo", "bar"} \cup (IF RequestsTest THEN {"pytest"} ELSE {})
        /\ out.value.requires["bar"].spec = ">=1.0"
        /\ DOMAIN out.value.extras = {"test"}
        /\ Len(out.value.extras["test"]) = 1
        /\ out.value.extras["test"][1].name = "pytest"

C24_Witness ==
    /\ pc = "SetupInfo.parse_setup_cfg"
    /\ DeclaresFooBarTest
    /\ RequestsTest
    /\ DOMAIN out.value.requires = {"foo", "bar", "pytest"}

\* C25: when the legacy script raises NameError in process, run_setup starts
\* it exactly once as a subprocess, with the arguments of the in-process run
\* and in the script's directory, and goes on to look for a distribution
\* object unless the subprocess run itself raises; after any other exception
\* of the script it starts no subprocess.
C25_NameErrorRunsSubprocess ==
    (pc = "run_setup") =>
        /\ fs.env.script = "NameError" =>
               /\ Len(out.value.subprocess) = 1
               /\ out.value.subprocess[1].cmd =
                      <<"python", "setup.py", "egg_info", "--egg-base",
                        "pkg/reqlib-metadata">>
               /\ out.value.subprocess[1].cwd = "pkg"
               /\ fs.env.sub = "ok" =>
                      \E e \in {"dist", "probe", "probe_raised"} :
                          e \in Items(out.value.events)
        /\ fs.env.script # "NameError" => out.value.subprocess = <<>>

C25_Witness ==
    /\ pc = "run_setup"
    /\ fs.env.script = "NameError"
    /\ fs.env.sub = "ok"
    /\ out.status = "returned"
    /\ Len(out.value.subprocess) = 1
====
